---- MODULE Spec2Model ----
(***************************************************************************)
(* Model of src/src/server.ts: the Worker's fetch router and the ChatAgent *)
(* Durable Object (loadHistory / saveHistory / clearHistory /              *)
(* getAIResponse / fetch).                                                 *)
(*                                                                         *)
(* Text is modelled as a sequence of characters; a character is a string   *)
(* of length one, and a non-ASCII code point is written "U+XXXX".          *)
(*                                                                         *)
(* A Durable Object handles one event at a time, but another request may   *)
(* be delivered to the same object while a handler awaits something that   *)
(* is not a storage operation.  The only such await in ChatAgent.fetch is  *)
(* the model call (env.AI.run), so a POST is two steps: everything up to   *)
(* the call, and everything after it.  GET and reset are one step each.    *)
(***************************************************************************)
EXTENDS Integers, Sequences, FiniteSets, TLC

VARIABLES storage, inflight, nPosts, out, log, seqUse, ui

vars == <<storage, inflight, nPosts, out, log, seqUse, ui>>

\* The variables of the Worker and its Durable Objects.
serverVars == <<storage, inflight, nPosts, out, log, seqUse>>

(***************************************************************************)
(* Bounds                                                                  *)
(***************************************************************************)
\* Number of POST requests that reach the model call in one behaviour.
MaxPosts == 2

(***************************************************************************)
(* Text helpers (JavaScript string and array methods used by the code)     *)
(***************************************************************************)
Whitespace == {" ", "\n", "\t"}

\* String.prototype.startsWith
StartsWith(s, p) == Len(s) >= Len(p) /\ SubSeq(s, 1, Len(p)) = p

\* String.prototype.endsWith
EndsWith(s, p) == Len(s) >= Len(p) /\ SubSeq(s, Len(s) - Len(p) + 1, Len(s)) = p

\* String.prototype.split with a one-character separator
RECURSIVE Split(_, _)
Split(s, sep) ==
    IF \A k \in 1..Len(s) : s[k] # sep
    THEN <<s>>
    ELSE LET k == CHOOSE j \in 1..Len(s) :
                      s[j] = sep /\ \A h \in 1..(j - 1) : s[h] # sep
         IN  <<SubSeq(s, 1, k - 1)>> \o Split(SubSeq(s, k + 1, Len(s)), sep)

\* Array.prototype.pop (the value it returns)
Pop(a) == a[Len(a)]

\* Variant of Join for a call without argument: the separator is ",".
RECURSIVE Join_comma(_, _)
Join_comma(a, sep) ==
    IF Len(a) = 0 THEN <<>>
    ELSE IF Len(a) = 1 THEN a[1]
    ELSE a[1] \o <<",">> \o Join_comma(Tail(a), sep)

\* Array.prototype.join
RECURSIVE Join(_, _)
Join(a, sep) ==
    IF Len(a) = 0 THEN <<>>
    ELSE IF Len(a) = 1 THEN a[1]
    ELSE a[1] \o sep \o Join(Tail(a), sep)

\* String.prototype.trim
RECURSIVE TrimStart(_)
TrimStart(s) ==
    IF Len(s) > 0 /\ s[1] \in Whitespace THEN TrimStart(Tail(s)) ELSE s

RECURSIVE TrimEnd(_)
TrimEnd(s) ==
    IF Len(s) > 0 /\ s[Len(s)] \in Whitespace
    THEN TrimEnd(SubSeq(s, 1, Len(s) - 1)) ELSE s

\* Variant of Trim that removes leading whitespace only.
Trim_leading(s) == TrimStart(s)

Trim(s) == TrimEnd(TrimStart(s))

(***************************************************************************)
(* Literals of the program                                                 *)
(***************************************************************************)
ChatPrefix == <<"/", "c", "h", "a", "t", "/">>
ResetSuffix == <<"/", "r", "e", "s", "e", "t">>
UserLabel == <<"U", "s", "e", "r", ":", " ">>
AILabel == <<"A", "I", ":", " ">>
NL == <<"\n">>

\* "Sorry, I couldn(U+2019)t generate a reply." as written in server.ts
FallbackReply ==
    <<"S", "o", "r", "r", "y", ",", " ", "I", " ", "c", "o", "u", "l", "d",
      "n", "U+2019", "t", " ", "g", "e", "n", "e", "r", "a", "t", "e", " ",
      "a", " ", "r", "e", "p", "l", "y", ".">>

\* "(U+2705) Chat history cleared."
ClearedText ==
    <<"U+2705", " ", "C", "h", "a", "t", " ", "h", "i", "s", "t", "o", "r",
      "y", " ", "c", "l", "e", "a", "r", "e", "d", ".">>

\* "ChatAgent ready (send POST data)"
ReadyText ==
    <<"C", "h", "a", "t", "A", "g", "e", "n", "t", " ", "r", "e", "a", "d",
      "y", " ", "(", "s", "e", "n", "d", " ", "P", "O", "S", "T", " ", "d",
      "a", "t", "a", ")">>

\* The system prompt of getAIResponse (two lines; U+2013 is the en dash).
SystemPrompt ==
    <<"Y", "o", "u", " ", "a", "r", "e", " ", "\"", "A", "I", " ", "S",
      "t", "u", "d", "y", " ", "B", "u", "d", "d", "y", "\"", ",", " ",
      "a", " ", "c", "o", "n", "c", "i", "s", "e", " ", "a", "n", "d", " ",
      "e", "n", "c", "o", "u", "r", "a", "g", "i", "n", "g", " ", "A", "I",
      " ", "t", "u", "t", "o", "r", ".", "\n", "R", "e", "p", "l", "y",
      " ", "i", "n", " ", "a", " ", "n", "a", "t", "u", "r", "a", "l", ",",
      " ", "f", "r", "i", "e", "n", "d", "l", "y", " ", "t", "o", "n", "e",
      ".", " ", "K", "e", "e", "p", " ", "a", "n", "s", "w", "e", "r", "s",
      " ", "s", "h", "o", "r", "t", " ", "(", "1", "U+2013", "2", " ", "s",
      "e", "n", "t", "e", "n", "c", "e", "s", ")", ".">>

\* "@cf/meta/llama-3.3-70b-instruct-fp8-fast"
ModelName ==
    <<"@", "c", "f", "/", "m", "e", "t", "a", "/", "l", "l", "a", "m", "a",
      "-", "3", ".", "3", "-", "7", "0", "b", "-", "i", "n", "s", "t", "r",
      "u", "c", "t", "-", "f", "p", "8", "-", "f", "a", "s", "t">>

MaxTokens == 50

(***************************************************************************)
(* Inputs                                                                  *)
(***************************************************************************)
IdA == <<"a">>
IdB == <<"b">>
IdReset == <<"r", "e", "s", "e", "t">>

\* Conversation identifiers the callers use (one path segment each).
Ids == {IdA, IdB, IdReset}

\* Names of Durable Object instances: every path segment of a request.
Names == Ids \cup {<<"c", "h", "a", "t">>, <<>>}

\* Message bodies: "What is 2+2?" and the two-line message "a(newline)b".
MsgPlain == <<"W", "h", "a", "t", " ", "i", "s", " ", "2", "+", "2", "?">>
MsgTwoLines == <<"a", "\n", "b">>
Msgs == {MsgPlain, MsgTwoLines}

\* Values env.AI.run can resolve to.
Results ==
    { [kind |-> "string", text |-> <<"4">>],
      [kind |-> "string", text |-> <<" ", "o", "k", "\n">>],
      [kind |-> "responseString", text |-> <<"y", "e", "s", " ">>],
      [kind |-> "responseOther", text |-> <<>>],
      [kind |-> "noResponse", text |-> <<>>],
      [kind |-> "null", text |-> <<>>] }

(***************************************************************************)
(* Client requests (PROMPTS.md, app.js)                                    *)
(***************************************************************************)
\* `/chat/${id}`
ChatPath(id) == ChatPrefix \o id

\* `/chat/${id}/reset`
ResetPath(id) == ChatPrefix \o id \o ResetSuffix

(***************************************************************************)
(* Storage of one Durable Object: the key "history"                        *)
(***************************************************************************)
NoValue == [has |-> FALSE, val |-> <<>>]

\* loadHistory: (await storage.get("history")) || []
loadHistory(i) == IF storage[i].has THEN storage[i].val ELSE <<>>

\* saveHistory: storage.put("history", history)
saveHistory(i, history) ==
    storage' = [storage EXCEPT ![i] = [has |-> TRUE, val |-> history]]

\* Variant of clearHistory that leaves the key in place.
clearHistory_kept(i) == storage' = storage

\* clearHistory: storage.delete("history")
clearHistory(i) == storage' = [storage EXCEPT ![i] = NoValue]

\* history.join("\n"): the body of the response to a GET
GetText(i) == Join(loadHistory(i), NL)

\* Requests of instance i whose model call is outstanding.
Pending(i) == {p \in inflight : p.inst = i}

NoOut ==
    [req |-> "none", addr |-> <<>>, inst |-> <<>>, did |-> "none",
     status |-> 0, text |-> <<>>, rid |-> 0, body |-> <<>>,
     shape |-> "none", wasEmpty |-> TRUE, ops |-> <<>>, raw |-> <<>>]

(***************************************************************************)
(* getAIResponse: reply extraction                                         *)
(***************************************************************************)
\* The value getAIResponse returns for a model result, or the fact that it
\* throws (calling trim on a response that is not a string).
ExtractReply(result) ==
    IF result.kind = "string"
    THEN [threw |-> FALSE, text |-> Trim(result.text)]
    ELSE IF result.kind = "responseString"
    THEN [threw |-> FALSE, text |-> Trim(result.text)]
    ELSE IF result.kind = "responseOther"
    THEN [threw |-> TRUE, text |-> <<>>]
    ELSE [threw |-> FALSE, text |-> FallbackReply]

\* `User: ${body}` and `AI: ${reply}`
UserLine(body) == UserLabel \o body
AILine(reply) == AILabel \o reply

\* Variant of PushTurn that pushes the AI line before the user line.
PushTurn_swapped(history, body, reply) ==
    history \o <<AILine(reply), UserLine(body)>>

\* history.push(`User: ${body}`, `AI: ${reply}`)
PushTurn(history, body, reply) == history \o <<UserLine(body), AILine(reply)>>

(***************************************************************************)
(* getAIResponse: the request sent to the model                            *)
(***************************************************************************)
\* Variant of Conversation that sends the prior lines without the new
\* message.
Conversation_historyOnly(prompt, history) == Join(history, NL)

\* [...history, `User: ${prompt}`].join("\n")
Conversation(prompt, history) == Join(history \o <<UserLine(prompt)>>, NL)

\* The arguments of env.AI.run.
AIRequest(prompt, history) ==
    [model |-> ModelName,
     messages |-> <<[role |-> "system", content |-> SystemPrompt],
                    [role |-> "user",
                     content |-> Conversation(prompt, history)]>>,
     max_tokens |-> MaxTokens]

\* The array passed to getAIResponse as it is when the call returns: the
\* conversation is built from a copy ([...history, ...]).
HistoryAfterRequest(prompt, history) == history

(***************************************************************************)
(* ChatAgent.fetch, up to the first await that lets other requests in      *)
(***************************************************************************)
\* req and addr record which operation the caller meant and on which
\* identifier; the code never reads them.
ChatAgentFetch(i, method, path, body, req, addr) ==
    IF EndsWith(path, ResetSuffix)
    THEN /\ clearHistory(i)
         /\ out' = [req |-> req, addr |-> addr, inst |-> i, did |-> "clear",
                    status |-> 200, text |-> ClearedText, rid |-> 0,
                    body |-> body, shape |-> "none",
                    wasEmpty |-> (loadHistory(i) = <<>>),
                    ops |-> <<"delete">>, raw |-> <<>>]
         /\ log' = [log EXCEPT ![i] = <<>>]
         /\ seqUse' = [seqUse EXCEPT ![i] = (Pending(i) = {})]
         /\ UNCHANGED <<inflight, nPosts>>
    ELSE IF method = "POST"
    THEN /\ nPosts < MaxPosts
         /\ nPosts' = nPosts + 1
         /\ inflight' = inflight \cup
                {[rid |-> nPosts + 1, inst |-> i, body |-> body,
                  history |-> HistoryAfterRequest(body, loadHistory(i)),
                  request |-> AIRequest(body, loadHistory(i)),
                  req |-> req, addr |-> addr, ops |-> <<"get", "run">>,
                  hung |-> FALSE]}
         /\ out' = [req |-> req, addr |-> addr, inst |-> i, did |-> "load",
                    status |-> 0, text |-> <<>>, rid |-> nPosts + 1,
                    body |-> body, shape |-> "none",
                    wasEmpty |-> (loadHistory(i) = <<>>),
                    ops |-> <<"get", "run">>, raw |-> <<>>]
         /\ seqUse' = [seqUse EXCEPT ![i] = seqUse[i] /\ Pending(i) = {}]
         /\ UNCHANGED <<storage, log>>
    ELSE IF method = "GET"
    THEN /\ out' = [req |-> req, addr |-> addr, inst |-> i, did |-> "get",
                    status |-> 200, text |-> GetText(i),
                    rid |-> 0, body |-> body, shape |-> "none",
                    wasEmpty |-> (loadHistory(i) = <<>>),
                    ops |-> <<"get">>, raw |-> <<>>]
         /\ UNCHANGED <<storage, inflight, nPosts, log, seqUse>>
    ELSE /\ out' = [req |-> req, addr |-> addr, inst |-> i, did |-> "default",
                    status |-> 200, text |-> ReadyText, rid |-> 0,
                    body |-> body, shape |-> "none",
                    wasEmpty |-> (loadHistory(i) = <<>>),
                    ops |-> <<>>, raw |-> <<>>]
         /\ UNCHANGED <<storage, inflight, nPosts, log, seqUse>>

\* ChatAgent.fetch when its first storage operation rejects (the delete of
\* the reset branch, the get of the POST and GET branches): no branch
\* catches, so the exception leaves fetch and the caller gets an error.
ChatAgentFetchFails(i, method, path, body, req, addr) ==
    /\ EndsWith(path, ResetSuffix) \/ method \in {"POST", "GET"}
    /\ out' = [req |-> req, addr |-> addr, inst |-> i,
               did |-> "storageError", status |-> 500, text |-> <<>>,
               rid |-> 0, body |-> body, shape |-> "none",
               wasEmpty |-> (loadHistory(i) = <<>>),
               ops |-> IF EndsWith(path, ResetSuffix)
                       THEN <<"delete">> ELSE <<"get">>,
               raw |-> <<>>]
    /\ UNCHANGED <<storage, inflight, nPosts, log, seqUse>>

(***************************************************************************)
(* ChatAgent.fetch, POST branch after the model call                       *)
(***************************************************************************)
\* Variant of PostThrows in which the user line was saved before the
\* model was called, so that a failure leaves it behind.
PostThrows_userSaved(p, shape) ==
    /\ saveHistory(p.inst, p.history \o <<UserLine(p.body)>>)
    /\ inflight' = inflight \ {p}
    /\ out' = [req |-> p.req, addr |-> p.addr, inst |-> p.inst,
               did |-> "throw", status |-> 500, text |-> <<>>,
               rid |-> p.rid, body |-> p.body, shape |-> shape,
               wasEmpty |-> (loadHistory(p.inst) = <<>>),
               ops |-> p.ops, raw |-> <<>>]
    /\ UNCHANGED <<nPosts, log, seqUse>>

\* The call rejected, or reply extraction threw: the exception leaves
\* getAIResponse and fetch, nothing is saved, the caller gets an error.
PostThrows(p, shape) ==
    /\ inflight' = inflight \ {p}
    /\ out' = [req |-> p.req, addr |-> p.addr, inst |-> p.inst,
               did |-> "throw", status |-> 500, text |-> <<>>,
               rid |-> p.rid, body |-> p.body, shape |-> shape,
               wasEmpty |-> (loadHistory(p.inst) = <<>>),
               ops |-> p.ops, raw |-> <<>>]
    /\ UNCHANGED <<storage, nPosts, log, seqUse>>

\* Variant of PostCommits that saves the two new lines alone.
PostCommits_newLinesOnly(p, reply, result) ==
    /\ saveHistory(p.inst, PushTurn(<<>>, p.body, reply))
    /\ inflight' = inflight \ {p}
    /\ out' = [req |-> p.req, addr |-> p.addr, inst |-> p.inst,
               did |-> "commit", status |-> 200, text |-> reply,
               rid |-> p.rid, body |-> p.body, shape |-> result.kind,
               wasEmpty |-> (loadHistory(p.inst) = <<>>),
               ops |-> p.ops \o <<"put">>, raw |-> result.text]
    /\ log' = [log EXCEPT ![p.inst] = @ \o <<UserLine(p.body), AILine(reply)>>]
    /\ UNCHANGED <<nPosts, seqUse>>

\* The reply is known: push both lines on the loaded history, save, respond.
PostCommits(p, reply, result) ==
    /\ saveHistory(p.inst, PushTurn(p.history, p.body, reply))
    /\ inflight' = inflight \ {p}
    /\ out' = [req |-> p.req, addr |-> p.addr, inst |-> p.inst,
               did |-> "commit", status |-> 200, text |-> reply,
               rid |-> p.rid, body |-> p.body, shape |-> result.kind,
               wasEmpty |-> (loadHistory(p.inst) = <<>>),
               ops |-> p.ops \o <<"put">>, raw |-> result.text]
    /\ log' = [log EXCEPT ![p.inst] = @ \o <<UserLine(p.body), AILine(reply)>>]
    /\ UNCHANGED <<nPosts, seqUse>>

\* env.AI.run resolves to result.
ModelReturns(p, result) ==
    /\ p \in inflight /\ ~p.hung
    /\ IF ExtractReply(result).threw
       THEN PostThrows(p, result.kind)
       ELSE PostCommits(p, ExtractReply(result).text, result)

\* env.AI.run rejects.
ModelThrows(p) ==
    /\ p \in inflight /\ ~p.hung
    /\ PostThrows(p, "rejected")

\* Variant of SaveFails for a handler that puts the user line first and
\* the AI line in a second put, which is the one that rejects.
SaveFails_userSaved(p, result) ==
    /\ p \in inflight /\ ~p.hung
    /\ ~ExtractReply(result).threw
    /\ saveHistory(p.inst, p.history \o <<UserLine(p.body)>>)
    /\ inflight' = inflight \ {p}
    /\ out' = [req |-> p.req, addr |-> p.addr, inst |-> p.inst,
               did |-> "storageError", status |-> 500, text |-> <<>>,
               rid |-> p.rid, body |-> p.body, shape |-> result.kind,
               wasEmpty |-> (loadHistory(p.inst) = <<>>),
               ops |-> p.ops \o <<"put">>, raw |-> result.text]
    /\ UNCHANGED <<nPosts, log, seqUse>>

\* env.AI.run resolves to result, a reply is extracted, and the put of
\* saveHistory rejects: the exception leaves fetch before the response.
SaveFails(p, result) ==
    /\ p \in inflight /\ ~p.hung
    /\ ~ExtractReply(result).threw
    /\ inflight' = inflight \ {p}
    /\ out' = [req |-> p.req, addr |-> p.addr, inst |-> p.inst,
               did |-> "storageError", status |-> 500, text |-> <<>>,
               rid |-> p.rid, body |-> p.body, shape |-> result.kind,
               wasEmpty |-> (loadHistory(p.inst) = <<>>),
               ops |-> p.ops \o <<"put">>, raw |-> result.text]
    /\ UNCHANGED <<storage, nPosts, log, seqUse>>

\* env.AI.run neither resolves nor rejects: the await in getAIResponse
\* never resumes, and nothing in the code ends it.
ModelHangs(p) ==
    /\ p \in inflight /\ ~p.hung
    /\ inflight' = (inflight \ {p}) \cup {[p EXCEPT !.hung = TRUE]}
    /\ UNCHANGED <<storage, nPosts, out, log, seqUse>>

(***************************************************************************)
(* The Worker: default.fetch                                               *)
(***************************************************************************)
\* Variant of RouteName that takes the first path segment, not the last.
RouteName_first(path) == Split(path, "/")[2]

\* url.pathname.split("/").pop()
RouteName(path) == Pop(Split(path, "/"))

WorkerFetch(method, path, body, req, addr) ==
    IF StartsWith(path, ChatPrefix) /\ method \in {"POST", "GET"}
    THEN ChatAgentFetch(RouteName(path), method, path, body, req, addr)
    ELSE /\ out' = [req |-> req, addr |-> addr, inst |-> <<>>,
                    did |-> "asset", status |-> 200, text |-> <<>>,
                    rid |-> 0, body |-> body, shape |-> "none",
                    wasEmpty |-> TRUE, ops |-> <<>>, raw |-> <<>>]
         /\ UNCHANGED <<storage, inflight, nPosts, log, seqUse>>

(***************************************************************************)
(* Requests arriving at the Worker                                         *)
(***************************************************************************)
ClientGet(id) == WorkerFetch("GET", ChatPath(id), <<>>, "Get", id)

ClientPost(id, m) == WorkerFetch("POST", ChatPath(id), m, "Post", id)

ClientReset(id) == WorkerFetch("POST", ResetPath(id), <<>>, "Reset", id)

ClientPage == WorkerFetch("GET", <<"/">>, <<>>, "Page", <<>>)

\* The three requests of the interface for identifier id and message m.
ChatRequests(id, m) ==
    { [method |-> "GET", path |-> ChatPath(id), body |-> <<>>, req |-> "Get"],
      [method |-> "POST", path |-> ChatPath(id), body |-> m, req |-> "Post"],
      [method |-> "POST", path |-> ResetPath(id), body |-> <<>>,
       req |-> "Reset"] }

\* The requests of the interface for identifier id, for every message.
AllChatRequests(id) == UNION {ChatRequests(id, m) : m \in Msgs}

(***************************************************************************)
(* Requests delivered to the ChatAgent instance of the identifier itself   *)
(***************************************************************************)
StubGet(id) == ChatAgentFetch(id, "GET", ChatPath(id), <<>>, "Get", id)

StubPost(id, m) == ChatAgentFetch(id, "POST", ChatPath(id), m, "Post", id)

StubReset(id) == ChatAgentFetch(id, "POST", ResetPath(id), <<>>, "Reset", id)

StubOther(id) == ChatAgentFetch(id, "PUT", ChatPath(id), <<>>, "Other", id)

\* A request whose handler meets a storage failure.
StubStorageFails(id, rq) ==
    ChatAgentFetchFails(id, rq.method, rq.path, rq.body, rq.req, id)

(***************************************************************************)
(* The browser client (PROMPTS.md, app.js)                                 *)
(***************************************************************************)
\* currentChatId = null
NoChat == <<>>

\* Identifiers generateChatId can return.
ClientIds == {IdA, IdB}

\* Outcomes of safeFetch: text of a response with res.ok, empty text of
\* such a response, a response with !res.ok, a rejected fetch.
FetchOutcomes == {"text", "empty", "serverError", "networkError"}

\* sendDisabled is sendBtn.disabled, chats the list kept in localStorage,
\* fetches the requests safeFetch has sent and not yet seen answered,
\* thinking the pause of sendMessage between the reply and its display,
\* warning whether the last answer appended an error message, lastPost
\* the fate of the last sendMessage.
UiInit ==
    [sendDisabled |-> FALSE, currentChatId |-> NoChat, chats |-> {},
     fetches |-> {}, thinking |-> FALSE, warning |-> FALSE,
     lastPost |-> "none"]

\* sendMessage up to the await of safeFetch; called by the click on the
\* send button (which a disabled button does not deliver) and by the Enter
\* key (which tests sendBtn.disabled).
sendMessage(id) ==
    /\ ~ui.sendDisabled
    /\ IF ui.currentChatId = NoChat
       THEN id \in ClientIds \ ui.chats
       ELSE id = ui.currentChatId
    /\ ui' = [ui EXCEPT !.sendDisabled = TRUE,
                        !.currentChatId = id,
                        !.chats = IF ui.currentChatId = NoChat
                                  THEN @ \cup {id} ELSE @,
                        !.fetches = @ \cup {[kind |-> "post", id |-> id]},
                        !.lastPost = "pending"]
    /\ UNCHANGED serverVars

\* safeFetch of sendMessage returns: null after appending an error message,
\* or the text; sendMessage returns at once on a reply that is null or
\* empty, and otherwise goes on to its pause.
sendMessageAnswered(f, outcome) ==
    /\ f \in ui.fetches /\ f.kind = "post"
    /\ ui' = IF outcome = "text"
             THEN [ui EXCEPT !.fetches = @ \ {f}, !.thinking = TRUE,
                             !.warning = FALSE]
             ELSE [ui EXCEPT !.fetches = @ \ {f},
                             !.warning = (outcome # "empty"),
                             !.lastPost = IF outcome = "empty"
                                          THEN "emptyReply" ELSE "failed"]
    /\ UNCHANGED serverVars

\* The rest of sendMessage: the reply is shown, the stats are updated,
\* renameChat adds currentChatId (null included) to the list when it is
\* not there, the send button is enabled.
sendMessageDone ==
    /\ ui.thinking
    /\ ui' = [ui EXCEPT !.thinking = FALSE, !.sendDisabled = FALSE,
                        !.chats = @ \cup {ui.currentChatId},
                        !.lastPost = "ok"]
    /\ UNCHANGED serverVars

\* newChat
newChat ==
    /\ ~ui.sendDisabled
    /\ ui' = [ui EXCEPT !.currentChatId = NoChat]
    /\ UNCHANGED serverVars

\* handleOpenChat up to the await of safeFetch in openChat
handleOpenChat(id) ==
    /\ id \in ui.chats
    /\ ~ui.sendDisabled
    /\ id # ui.currentChatId
    /\ ui' = [ui EXCEPT !.currentChatId = id,
                        !.fetches = @ \cup {[kind |-> "get", id |-> id]}]
    /\ UNCHANGED serverVars

\* safeFetch of openChat returns.
openChatAnswered(f, outcome) ==
    /\ f \in ui.fetches /\ f.kind = "get"
    /\ ui' = [ui EXCEPT !.fetches = @ \ {f},
                        !.warning = (outcome \in {"serverError", "networkError"})]
    /\ UNCHANGED serverVars

\* handleDeleteChat (the user confirms) up to the await of safeFetch
handleDeleteChat(id) ==
    /\ id \in ui.chats
    /\ ui' = [ui EXCEPT !.fetches = @ \cup {[kind |-> "reset", id |-> id]}]
    /\ UNCHANGED serverVars

\* safeFetch of handleDeleteChat returns: on null nothing more happens,
\* otherwise the chat is removed locally.
deleteChatAnswered(f, outcome) ==
    /\ f \in ui.fetches /\ f.kind = "reset"
    /\ ui' = IF outcome \in {"serverError", "networkError"}
             THEN [ui EXCEPT !.fetches = @ \ {f}, !.warning = TRUE]
             ELSE [ui EXCEPT !.fetches = @ \ {f}, !.warning = FALSE,
                             !.chats = @ \ {f.id},
                             !.currentChatId =
                                 IF @ = f.id THEN NoChat ELSE @]
    /\ UNCHANGED serverVars

(***************************************************************************)
(* Specifications                                                          *)
(***************************************************************************)
Init ==
    /\ storage = [i \in Names |-> NoValue]
    /\ inflight = {}
    /\ nPosts = 0
    /\ out = NoOut
    /\ log = [i \in Names |-> <<>>]
    /\ seqUse = [i \in Names |-> TRUE]
    /\ ui = UiInit

Next ==
    \/ /\ \E id \in Ids : ClientGet(id)
       /\ UNCHANGED ui
    \/ /\ \E id \in Ids, m \in Msgs : ClientPost(id, m)
       /\ UNCHANGED ui
    \/ /\ \E id \in Ids : ClientReset(id)
       /\ UNCHANGED ui
    \/ /\ ClientPage
       /\ UNCHANGED ui
    \/ /\ \E p \in inflight, result \in Results : ModelReturns(p, result)
       /\ UNCHANGED ui
    \/ /\ \E p \in inflight : ModelThrows(p)
       /\ UNCHANGED ui

\* The whole program: every request enters through the Worker.
Spec == Init /\ [][Next]_vars

HandlerNext ==
    \/ /\ \E id \in Ids : StubGet(id)
       /\ UNCHANGED ui
    \/ /\ \E id \in Ids, m \in Msgs : StubPost(id, m)
       /\ UNCHANGED ui
    \/ /\ \E id \in Ids : StubReset(id)
       /\ UNCHANGED ui
    \/ /\ \E id \in Ids : StubOther(id)
       /\ UNCHANGED ui
    \/ /\ \E p \in inflight, result \in Results : ModelReturns(p, result)
       /\ UNCHANGED ui
    \/ /\ \E p \in inflight : ModelThrows(p)
       /\ UNCHANGED ui

\* The ChatAgent class alone: each request reaches the instance named by
\* the identifier it is addressed to.
HandlerSpec == Init /\ [][HandlerNext]_vars

\* The handler's continuation for the Post with request number rid.
Settles(rid) ==
    \E p \in inflight :
        /\ p.rid = rid
        /\ \/ \E result \in Results : ModelReturns(p, result)
           \/ ModelThrows(p)
        /\ UNCHANGED ui

LiveNext ==
    \/ /\ \E id \in Ids : ClientGet(id)
       /\ UNCHANGED ui
    \/ /\ \E id \in Ids, m \in Msgs : ClientPost(id, m)
       /\ UNCHANGED ui
    \/ /\ \E id \in Ids : ClientReset(id)
       /\ UNCHANGED ui
    \/ /\ \E p \in inflight, result \in Results : ModelReturns(p, result)
       /\ UNCHANGED ui
    \/ /\ \E p \in inflight : ModelThrows(p)
       /\ UNCHANGED ui
    \/ /\ \E p \in inflight : ModelHangs(p)
       /\ UNCHANGED ui

\* The program with a model call that may never return.  Every call that
\* does return is followed by the rest of the POST branch.
LiveSpec ==
    /\ Init
    /\ [][LiveNext]_vars
    /\ \A rid \in 1..MaxPosts : WF_vars(Settles(rid))

ClientNext ==
    \/ \E id \in ClientIds : sendMessage(id)
    \/ \E f \in ui.fetches, outcome \in FetchOutcomes :
            sendMessageAnswered(f, outcome)
    \/ sendMessageDone
    \/ newChat
    \/ \E id \in ui.chats : handleOpenChat(id)
    \/ \E f \in ui.fetches, outcome \in FetchOutcomes :
            openChatAnswered(f, outcome)
    \/ \E id \in ui.chats : handleDeleteChat(id)
    \/ \E f \in ui.fetches, outcome \in FetchOutcomes :
            deleteChatAnswered(f, outcome)

\* The browser client alone, with every outcome of each request.
ClientSpec == Init /\ [][ClientNext]_vars

\* Identifiers used where storage operations may fail.
FaultIds == {IdA, IdReset}

FaultNext ==
    \/ /\ \E id \in FaultIds : StubGet(id)
       /\ UNCHANGED ui
    \/ /\ \E id \in FaultIds, m \in Msgs : StubPost(id, m)
       /\ UNCHANGED ui
    \/ /\ \E id \in FaultIds : StubReset(id)
       /\ UNCHANGED ui
    \/ /\ \E id \in FaultIds :
               \E rq \in AllChatRequests(id) : StubStorageFails(id, rq)
       /\ UNCHANGED ui
    \/ /\ \E p \in inflight, result \in Results : ModelReturns(p, result)
       /\ UNCHANGED ui
    \/ /\ \E p \in inflight : ModelThrows(p)
       /\ UNCHANGED ui
    \/ /\ \E p \in inflight, result \in Results : SaveFails(p, result)
       /\ UNCHANGED ui

\* The ChatAgent class with a storage whose get, put and delete may reject.
FaultSpec == Init /\ [][FaultNext]_vars

\* Identifiers, request methods and paths used where any method may meet
\* any path under "/chat/": the two paths of the interface for each
\* identifier, and "/chat/" itself.
SurfaceIds == {IdA, IdReset}

Methods == {"GET", "POST", "PUT"}

\* One message body is enough where only the method and the path matter.
SurfaceMsgs == {MsgPlain}

SurfacePaths ==
    {ChatPath(id) : id \in SurfaceIds} \cup
    {ResetPath(id) : id \in SurfaceIds} \cup {ChatPrefix}

\* What a request is called by its method: a GET is a "Get" whatever its
\* path, a POST is a "Reset" on a path ending in "/reset" and a "Post"
\* otherwise.
ReqOf(method, path) ==
    IF method = "GET" THEN "Get"
    ELSE IF method # "POST" THEN "Other"
    ELSE IF EndsWith(path, ResetSuffix) THEN "Reset" ELSE "Post"

\* A request with any method on any of the paths arrives at the Worker
\* (a GET carries no body).
SurfaceRequest(method, path, m) ==
    WorkerFetch(method, path, IF method = "GET" THEN <<>> ELSE m,
                ReqOf(method, path), RouteName(path))

SurfaceNext ==
    \/ /\ \E method \in Methods, path \in SurfacePaths, m \in SurfaceMsgs :
               SurfaceRequest(method, path, m)
       /\ UNCHANGED ui
    \/ /\ \E p \in inflight, result \in Results : ModelReturns(p, result)
       /\ UNCHANGED ui
    \/ /\ \E p \in inflight : ModelThrows(p)
       /\ UNCHANGED ui

\* The whole program under requests of every method on every path.
SurfaceSpec == Init /\ [][SurfaceNext]_vars

(***************************************************************************)
(* Properties                                                              *)
(***************************************************************************)
\* The set of elements of a sequence.
Range(a) == {a[k] : k \in 1..Len(a)}

\* The text a GET /chat/{id} sent to the Worker returns in this state.
GetViaWorker(id) == GetText(RouteName(ChatPath(id)))

\* C1, first sentence: a POST does not load the history of an instance
\* while another POST of that instance waits for its model call.
C1_Serialized == \A i \in Names : Cardinality(Pending(i)) <= 1

\* C1, second sentence: once no POST of an instance is outstanding, the
\* stored history holds both lines of every POST that returned a reply.
C1_NoLostUpdate ==
    \A i \in Names :
        Pending(i) = {} =>
            /\ Len(loadHistory(i)) = Len(log[i])
            /\ Range(log[i]) \subseteq Range(loadHistory(i))

\* C1: two Posts on one identifier are serialized, so that when both
\* succeed the stored history contains the four lines of both and neither
\* save overwrites the other's pair.
C1_PostsSerialized == C1_Serialized /\ C1_NoLostUpdate

\* C2: after the Worker has handled a Reset addressed to an identifier, a
\* Get of that identifier through the Worker returns empty text.
C2_ResetThenGetEmpty ==
    out.req = "Reset" => GetViaWorker(out.addr) = <<>>

\* C3: every Get, Post and Reset addressed to an identifier is delivered to
\* the instance bound to that identifier's name and to no other.
C3_RoutedToOwnInstance ==
    /\ out.req \in {"Get", "Post", "Reset"} => out.inst = out.addr
    /\ \A p \in inflight : p.inst = p.addr
\* C4: a step that changes the stored history of an instance handles a
\* request addressed to the identifier of that name; requests addressed to
\* another identifier leave it alone.
C4_Independent ==
    [][\A b \in Names : storage'[b] # storage[b] => out'.addr = b]_vars

\* A Post addressed to a was committed while b holds a history of its own.
C4_Witness ==
    /\ out.did = "commit" /\ out.addr = IdA
    /\ storage[IdA].has /\ storage[IdB].has

\* C5: when the model call of a Post throws or rejects, the caller gets an
\* error and no reply, and neither step of that Post (loading, failing)
\* changes what is stored.
C5_FailedPostCommitsNothing ==
    [][/\ out'.did = "load" => storage' = storage
       /\ out'.did = "throw" =>
            /\ storage' = storage
            /\ out'.status = 500 /\ out'.text = <<>>]_vars

\* A Post failed on a conversation that already had turns stored.
C5_Witness == out.did = "throw" /\ storage[out.inst].has

\* C6: after a Post answered with success, the response is the reply and
\* the text of an immediate Get ends with the line "User: m" followed by
\* the line "AI: r".
C6_PostThenGet ==
    (out.req = "Post" /\ out.status = 200) =>
        LET lines == Split(GetViaWorker(out.addr), "\n")
            n == Len(lines)
        IN  /\ n >= 2
            /\ lines[n] = AILabel \o out.text
            /\ lines[n - 1] = UserLabel \o out.body

C8_Exclusive ==
    out.did \in {"clear", "load", "get", "default"} =>
        \A p \in Pending(out.inst) : p.rid = out.rid

\* C8, second part: every stored line was stored after the last Reset.
C8_ResetNotUndone ==
    \A i \in Names :
        /\ Len(loadHistory(i)) <= Len(log[i])
        /\ Range(loadHistory(i)) \subseteq Range(log[i])

\* C8: nothing else takes effect on an identifier while a Post's model call
\* is outstanding, and a completed Reset is never undone by such a Post.
C8_NoOperationDuringPost == C8_Exclusive /\ C8_ResetNotUndone

Empty(i) == loadHistory(i) = <<>>

\* C9: a conversation leaves Empty only by a Post that returned a reply and
\* leaves NonEmpty only by a Reset; such a Post ends in NonEmpty, a Reset
\* succeeds and ends in Empty from either state, and a Get is answered in
\* either state and changes nothing.
C9_StateMachine ==
    [][\A i \in Names :
        /\ (Empty(i) /\ ~Empty(i)') =>
                (out'.req = "Post" /\ out'.did = "commit" /\ out'.inst = i)
        /\ (~Empty(i) /\ Empty(i)') =>
                (out'.req = "Reset" /\ out'.inst = i)
        /\ (out'.did = "commit" /\ out'.inst = i) => ~Empty(i)'
        /\ (out'.req = "Reset" /\ out'.inst = i) =>
                (Empty(i)' /\ out'.status = 200)
        /\ (out'.req = "Get" /\ out'.inst = i) =>
                (out'.status = 200 /\ storage'[i] = storage[i])]_vars

\* A Reset emptied a conversation that had turns.
C9_Witness == out.req = "Reset" /\ ~out.wasEmpty /\ Empty(out.inst)

\* "Sorry, I couldn't generate a reply." as written in the specification
SpecFallbackReply ==
    <<"S", "o", "r", "r", "y", ",", " ", "I", " ", "c", "o", "u", "l", "d",
      "n", "'", "t", " ", "g", "e", "n", "e", "r", "a", "t", "e", " ",
      "a", " ", "r", "e", "p", "l", "y", ".">>

\* C10: when the model returns a value that is neither a string nor an
\* object with a response field, the Post succeeds, its reply is the
\* specification's fallback string, and the last stored line is "AI: "
\* followed by that string.
C10_FallbackLiteral ==
    (out.did \in {"commit", "throw"} /\ out.shape \in {"noResponse", "null"}) =>
        /\ out.status = 200
        /\ out.text = SpecFallbackReply
        /\ Pop(loadHistory(out.inst)) = AILabel \o SpecFallbackReply
\* C11: whatever value the model call resolves to, getAIResponse returns a
\* string and the Post is answered; a value that is neither a string nor an
\* object with a string response field gives the fallback reply.
C11_ExtractionNeverThrows ==
    (out.did \in {"commit", "throw"} /\ out.shape # "rejected") =>
        /\ out.did = "commit"
        /\ out.shape \notin {"string", "responseString"} =>
                out.text = FallbackReply
\* C12: a request whose load, save or delete fails ends in an error, and
\* neither that step nor the loading step of the same Post changes what is
\* stored, also when the save fails after a reply was generated.
C12_StorageFailureCommitsNothing ==
    [][/\ out'.did = "storageError" =>
            /\ storage' = storage
            /\ out'.status = 500 /\ out'.text = <<>>
       /\ \A p \in inflight' \ inflight : storage' = storage]_vars

\* The save failed after a reply was generated, on a conversation that
\* already had turns stored.
C12_Witness ==
    /\ out.did = "storageError"
    /\ out.ops = <<"get", "run", "put">>
    /\ out.shape = "string"
    /\ storage[out.inst].has
\* The number of characters before line k in the text that holds the
\* lines of a one after another with one separator between neighbours.
RECURSIVE Offset(_, _)
Offset(a, k) == IF k <= 1 THEN 0 ELSE Offset(a, k - 1) + Len(a[k - 1]) + 1

\* text consists of the lines of a, in order and unchanged, with exactly
\* one newline between neighbours and nothing else.
IsNewlineJoined(text, a) ==
    IF Len(a) = 0 THEN text = <<>>
    ELSE /\ Len(text) = Offset(a, Len(a) + 1) - 1
         /\ \A k \in 1..Len(a) :
                /\ SubSeq(text, Offset(a, k) + 1, Offset(a, k) + Len(a[k])) = a[k]
                /\ k > 1 => text[Offset(a, k)] = "\n"

NonBlank(l) == Trim(l) # <<>>

\* One iteration of the loop of openChat: the message appended for a line.
DecodeLine(l) ==
    IF StartsWith(l, UserLabel)
    THEN <<[role |-> "user", text |-> SubSeq(l, 7, Len(l))]>>
    ELSE IF StartsWith(l, AILabel)
    THEN <<[role |-> "ai", text |-> SubSeq(l, 5, Len(l))]>>
    ELSE <<>>

RECURSIVE DecodeLines(_)
DecodeLines(lines) ==
    IF Len(lines) = 0 THEN <<>>
    ELSE DecodeLine(lines[1]) \o DecodeLines(Tail(lines))

\* historyText.split("\n").filter((l) => l.trim()), then the loop.
Decode(text) == DecodeLines(SelectSeq(Split(text, "\n"), NonBlank))

\* The turns that were posted and replied, from the lines User: m1, AI: r1,
\* ... of the Posts that returned a reply.
PostedTurns(lines) ==
    [k \in 1..Len(lines) |->
        IF k % 2 = 1
        THEN [role |-> "user", text |-> SubSeq(lines[k], 7, Len(lines[k]))]
        ELSE [role |-> "ai", text |-> SubSeq(lines[k], 5, Len(lines[k]))]]

\* C14: under sequential use, every stored turn is one line of the Get
\* text, and decoding the Get text gives back exactly the turns that were
\* posted and replied, whatever the message and reply texts contain.
C14_LineRoundTrip ==
    \A i \in Names :
        seqUse[i] =>
            /\ Len(GetText(i)) > 0 =>
                    Len(Split(GetText(i), "\n")) = Len(loadHistory(i))
            /\ Decode(GetText(i)) = PostedTurns(log[i])
C18_PromptConstruction ==
    [][\A q \in inflight' \ inflight :
        /\ Len(q.request.messages) = 2
        /\ q.request.messages[1] = [role |-> "system", content |-> SystemPrompt]
        /\ q.request.messages[2].role = "user"
        /\ IsNewlineJoined(q.request.messages[2].content,
                           loadHistory(q.inst) \o <<UserLabel \o q.body>>)
        /\ q.request.max_tokens = 50
        /\ Cardinality({k \in 1..Len(q.ops) : q.ops[k] = "run"}) = 1
        /\ q.history = loadHistory(q.inst)
        /\ storage' = storage]_vars

\* A request was built from a history of two stored lines.
C18_Witness ==
    \E p \in inflight :
        Len(p.history) = 2 /\ Len(p.request.messages[2].content) > Len(p.body) + 6
\* r is s without its leading and trailing whitespace.
IsTrimOf(r, s) ==
    LET blank == {" ", "\n", "\t"}
    IN  /\ \E a \in 0..Len(s), b \in 0..Len(s) :
                /\ a + b <= Len(s)
                /\ r = SubSeq(s, a + 1, Len(s) - b)
                /\ \A k \in 1..a : s[k] \in blank
                /\ \A k \in (Len(s) - b + 1)..Len(s) : s[k] \in blank
        /\ Len(r) > 0 => (r[1] \notin blank /\ r[Len(r)] \notin blank)

\* C19: when the model returns a string, or an object with a string
\* response field, the reply is that text without leading and trailing
\* whitespace, and this one text is both the response of the Post and the
\* content of the stored "AI: " line.
C19_TrimmedReply ==
    (out.did = "commit" /\ out.shape \in {"string", "responseString"}) =>
        /\ IsTrimOf(out.text, out.raw)
        /\ out.status = 200
        /\ Pop(loadHistory(out.inst)) = AILabel \o out.text

\* An object's response field was returned with its whitespace removed.
C19_Witness ==
    /\ out.did = "commit" /\ out.shape = "responseString"
    /\ out.raw # out.text
\* C15: every Post that has reached its model call eventually completes,
\* with a reply or with an error.
C15_PostCompletes ==
    \A rid \in 1..MaxPosts :
        (\E p \in inflight : p.rid = rid) ~> ~(\E p \in inflight : p.rid = rid)
\* C16: after a Post sent by sendMessage has failed, a warning is shown
\* and the send control is enabled again, so that sending, starting a new
\* chat and opening a chat are possible.
C16_UsableAfterFailure ==
    ui.lastPost = "failed" => (ui.warning /\ ~ui.sendDisabled)

\* C20: while a Post sent by sendMessage is outstanding, the client sends
\* no other request (Post, history fetch, Reset) for that identifier.
C20_ClientSingleFlight ==
    [][\A g \in ui'.fetches \ ui.fetches :
        \A f \in ui.fetches : f.kind = "post" => g.id # f.id]_vars

\* C21: in every reachable state, whatever the interleaving of Get, Post
\* and Reset on an identifier and whatever the model does, the stored
\* history of every instance has even length, its odd entries start with
\* "User: " and its even entries with "AI: "; no user line is stored
\* without the assistant line after it.
C21_PairsAlternate ==
    \A i \in Names :
        LET h == loadHistory(i) IN
            /\ Len(h) % 2 = 0
            /\ \A k \in 1..Len(h) :
                IF k % 2 = 1
                THEN StartsWith(h[k], UserLabel)
                ELSE StartsWith(h[k], AILabel)

\* A Post committed on an instance holding two turns after requests of
\* that instance had overlapped a Post's model call.
C21_Witness ==
    /\ out.did = "commit" /\ ~seqUse[out.inst]
    /\ Len(loadHistory(out.inst)) = 4

\* C22: handling a GET request that the Worker forwards, whatever its
\* path under "/chat/", leaves the stored history of every instance as it
\* was; a step that changes stored state belongs to a POST request.
C22_GetChangesNothing ==
    [][/\ out'.req = "Get" => storage' = storage
       /\ storage' # storage => out'.req \in {"Post", "Reset"}]_vars

\* A GET on a path ending in "/reset" went through the reset branch while
\* a conversation had turns stored.
C22_Witness ==
    /\ out.req = "Get" /\ out.did = "clear"
    /\ \E i \in Names : storage[i].has

====
